---- MODULE Spec2Model ----
(***************************************************************************)
(* Model of the OAuth2 authorization-code flow with PKCE of                *)
(* korjavin/oauth2example: the local callback receiver                     *)
(* (internal/server/callback.go), the part of the OAuth2 client that       *)
(* consumes the received code (ExchangeCodeForToken, VerifyState) and the  *)
(* goroutines that run them.                                               *)
(*                                                                         *)
(* One CallbackServer is modelled.  Its goroutines are: the caller of      *)
(* Start, the background goroutine running http.Server.Serve, one          *)
(* goroutine per inbound request running handleCallback, the caller of     *)
(* WaitForCode, and the callers of Stop.  Every action is one atomic step  *)
(* of one goroutine; a step that blocks in Go (a send on a full channel,   *)
(* sync.Once.Do while another call runs, WaitGroup.Wait) is an action      *)
(* whose guard is the condition under which Go lets it proceed.            *)
(***************************************************************************)
EXTENDS Integers, Sequences, FiniteSets, TLC

\* ------------------------------------------------------------------ bounds
\* Number of inbound requests the provider/browser sends to the callback path.
MaxRequests == 2
\* Number of goroutines that call Stop().
NumStoppers == 2
\* Latest instant (Unix seconds) of the clock and of the token's claims.
MaxTime == 2
\* Number of calls made on one OAuth2Client.
MaxCalls == 3
\* Length of the longest ID token handed to ParseIDToken.
MaxTokenLen == 6

\* ------------------------------------------------------------ input values
Requests == 1..MaxRequests
Stoppers == 1..NumStoppers

\* The state token of the attempt (OAuth2Client.state) and the values a
\* redirect can carry in its `state` query parameter: none, the issued one,
\* a different one.
IssuedState == "st-issued"
StateValues == {"", IssuedState, "st-other"}
\* Values of the `code` query parameter ("" when the parameter is absent).
CodeValues == {"", "abc123"}
\* Values of the `error` / `error_description` query parameters.
ErrorValues == {<<"", "">>, <<"access_denied", "user denied access">>}

\* The query of one inbound request. handleCallback never reads `state`, so
\* the parameter is varied on the requests where it matters to the flow,
\* those that deliver a code; the others echo the issued state.
QueryValues ==
  { q \in [code : CodeValues, error : {e[1] : e \in ErrorValues},
           desc : {e[2] : e \in ErrorValues}, state : StateValues] :
      /\ << q.error, q.desc >> \in ErrorValues
      /\ (q.code = "" \/ q.error # "") => q.state = IssuedState }
NoQuery == [code |-> "", error |-> "", desc |-> "", state |-> ""]

\* ---------------------------------------------------------------- outcomes
\* A value travelling on codeChan or errChan, or returned by WaitForCode.
\* `from` is the request whose handler produced it (0: not from a request).
CodeOutcome(c, r) ==
  [kind |-> "code", code |-> c, error |-> "", desc |-> "", from |-> r]
\* fmt.Errorf("no authorization code received")
NoCodeError(r) ==
  [kind |-> "nocode", code |-> "", error |-> "", desc |-> "", from |-> r]
\* fmt.Errorf("oauth error: %s - %s", errMsg, errDesc)
OAuthError(e, d, r) ==
  [kind |-> "oauth", code |-> "", error |-> e, desc |-> d, from |-> r]
\* fmt.Errorf("callback server error: %w", err)
TransportError ==
  [kind |-> "transport", code |-> "", error |-> "", desc |-> "", from |-> 0]
\* ctx.Err() of an elapsed deadline
TimeoutError ==
  [kind |-> "timeout", code |-> "", error |-> "", desc |-> "", from |-> 0]
NoOutcome ==
  [kind |-> "none", code |-> "", error |-> "", desc |-> "", from |-> 0]

\* Capacity of codeChan and of errChan: make(chan ..., 1).
ChanCap == 1
\* http.StatusBadRequest and http.StatusOK, the statuses handleCallback writes.
StatusBadRequest == 400
StatusOK == 200

VARIABLES
  portBusy,     \* environment: another process already holds the port
  server,       \* s.server: "nil" or "srv"
  listener,     \* the TCP listener: "unbound", "open", "closed"
  inShutdown,   \* http.Server's shutting-down flag, set by Shutdown
  codeChan,     \* s.codeChan, a sequence of at most ChanCap outcomes
  errChan,      \* s.errChan, a sequence of at most ChanCap outcomes
  onceState,    \* s.once: "new", "running", "done"
  shutdownWg,   \* s.shutdownWg counter
  startPc,      \* the caller of Start
  servePc,      \* the background goroutine of Start
  acceptErr,    \* Accept failed with an error that is not a shutdown
  hpc,          \* per request: position of its handleCallback goroutine
  req,          \* per request: its query
  pend,         \* per request: the outcome its handler is about to send
  resp,         \* per request: HTTP status written, 0 when none yet
  arrived,      \* number of requests received so far (they are numbered
                \* in the order the server received them)
  nPublished,   \* number of sends completed on codeChan or errChan
  ctxDone,      \* the context given to WaitForCode is done
  wpc,          \* the caller of WaitForCode: "idle", "waiting", "returned"
  wres,         \* what WaitForCode returned
  spc,          \* per Stop caller: its position
  nShutdown,    \* number of times http.Server.Shutdown was entered
  xpc,          \* the controller's token exchange: "idle", "done"
  xres,         \* result of ExchangeCodeForToken
  tokenReqs,    \* token requests issued to the token endpoint
  crashed,      \* the process died of an unrecovered panic
  client,       \* the OAuth2Client: config, verifier, challenge, state
  authURLs,     \* the URLs GetAuthorizationURL has returned
  tokenPosts,   \* the forms ExchangeCodeForToken has POSTed
  netCalls,     \* number of HTTP requests the client has issued
  nCalls,       \* number of calls made on the client
  last,         \* the last call on the client and what it returned
  call,         \* a call of a pure function: its name and arguments
  ret           \* what the pure function returned

vars ==
  << portBusy, server, listener, inShutdown, codeChan, errChan, onceState,
     shutdownWg, startPc, servePc, acceptErr, hpc, req, pend, resp, arrived,
     nPublished, ctxDone, wpc, wres, spc, nShutdown, xpc, xres, tokenReqs,
     crashed, client, authURLs, tokenPosts, netCalls, nCalls, last, call,
     ret >>

srvVars == << server, listener, inShutdown, startPc, servePc, acceptErr >>
chanVars == << codeChan, errChan, nPublished >>
reqVars == << hpc, req, pend, resp, arrived >>
waitVars == << ctxDone, wpc, wres >>
stopVars == << onceState, shutdownWg, spc, nShutdown >>
flowVars == << xpc, xres, tokenReqs >>
clientVars == << client, authURLs, tokenPosts, netCalls, nCalls, last >>
pureVars == << call, ret >>
\* Everything of the callback receiver and of the flow around it.
receiverVars ==
  << portBusy, srvVars, chanVars, reqVars, waitVars, stopVars, flowVars,
     crashed >>

\* NewCallbackServer: the receiver right after construction.
NewCallbackServer ==
  /\ portBusy \in BOOLEAN
  /\ server = "nil"
  /\ listener = "unbound"
  /\ inShutdown = FALSE
  /\ codeChan = << >>
  /\ errChan = << >>
  /\ onceState = "new"
  /\ shutdownWg = 0
  /\ startPc = "idle"
  /\ servePc = "none"
  /\ acceptErr = FALSE
  /\ hpc = [r \in Requests |-> "idle"]
  /\ req = [r \in Requests |-> NoQuery]
  /\ pend = [r \in Requests |-> NoOutcome]
  /\ resp = [r \in Requests |-> 0]
  /\ arrived = 0
  /\ nPublished = 0
  /\ ctxDone = FALSE
  /\ wpc = "idle"
  /\ wres = NoOutcome
  /\ spc = [t \in Stoppers |-> "idle"]
  /\ nShutdown = 0
  /\ xpc = "idle"
  /\ xres = "none"
  /\ tokenReqs = << >>
  /\ crashed = FALSE

\* No call is being made on an OAuth2Client: the client of the attempt
\* holds the issued state and nothing has been asked of it.
IdleClient ==
  /\ client = [state |-> IssuedState]
  /\ authURLs = {}
  /\ tokenPosts = {}
  /\ netCalls = 0
  /\ nCalls = 0
  /\ last = [op |-> "none"]

\* No pure function is being applied.
IdlePure ==
  /\ call = [fn |-> "none"]
  /\ ret = [done |-> FALSE]

\* The receiver right after construction.
Init ==
  /\ NewCallbackServer
  /\ IdleClient
  /\ IdlePure

\* No goroutine takes a step once the process has died.
Running == ~crashed

\* ------------------------------------------------------------------- Start
\* Start is entered (callback.go:36-41: addr, mux, HandleFunc).
StartCall ==
  /\ Running
  /\ UNCHANGED << clientVars, pureVars >>
  /\ startPc = "idle"
  /\ startPc' = "entered"
  /\ UNCHANGED << portBusy, server, listener, inShutdown, servePc, acceptErr,
                  crashed >>
  /\ UNCHANGED << chanVars, reqVars, waitVars, stopVars, flowVars >>

\* s.server = &http.Server{...} (callback.go:43-46).
StartAssign ==
  /\ Running
  /\ UNCHANGED << clientVars, pureVars >>
  /\ startPc = "entered"
  /\ server' = "srv"
  /\ startPc' = "assigned"
  /\ UNCHANGED << portBusy, listener, inShutdown, servePc, acceptErr, crashed >>
  /\ UNCHANGED << chanVars, reqVars, waitVars, stopVars, flowVars >>

\* A variant of StartListen that also reports the bind failure on the
\* handoff, where WaitForCode would pick it up.
StartListenPublishing ==
  /\ Running
  /\ UNCHANGED << clientVars, pureVars >>
  /\ startPc = "assigned"
  /\ IF portBusy
       THEN /\ startPc' = "failed"
            /\ errChan' = IF Len(errChan) < ChanCap
                            THEN Append(errChan, TransportError)
                            ELSE errChan
            /\ nPublished' = IF Len(errChan) < ChanCap
                               THEN nPublished + 1
                               ELSE nPublished
            /\ UNCHANGED listener
       ELSE /\ startPc' = "bound"
            /\ listener' = "open"
            /\ UNCHANGED << errChan, nPublished >>
  /\ UNCHANGED << portBusy, server, inShutdown, servePc, acceptErr, codeChan,
                  crashed >>
  /\ UNCHANGED << reqVars, waitVars, stopVars, flowVars >>

\* listener, err := net.Listen("tcp", addr); on error Start returns
\* "port %d is not available" (callback.go:49-52).
StartListen ==
  /\ Running
  /\ UNCHANGED << clientVars, pureVars >>
  /\ startPc = "assigned"
  /\ IF portBusy
       THEN /\ startPc' = "failed"
            /\ UNCHANGED listener
       ELSE /\ startPc' = "bound"
            /\ listener' = "open"
  /\ UNCHANGED << portBusy, server, inShutdown, servePc, acceptErr, crashed >>
  /\ UNCHANGED << chanVars, reqVars, waitVars, stopVars, flowVars >>

\* s.shutdownWg.Add(1); go func() {...}(); return nil (callback.go:64-75).
StartSpawn ==
  /\ Running
  /\ UNCHANGED << clientVars, pureVars >>
  /\ startPc = "bound"
  /\ shutdownWg' = shutdownWg + 1
  /\ servePc' = "start"
  /\ startPc' = "ok"
  /\ UNCHANGED << portBusy, server, listener, inShutdown, acceptErr, crashed >>
  /\ UNCHANGED << onceState, spc, nShutdown >>
  /\ UNCHANGED << chanVars, reqVars, waitVars, flowVars >>

\* ------------------------------------------------- the serving goroutine
\* s.server.Serve(listener) registers the listener and enters its accept
\* loop; on a server that is already shutting down it closes the listener
\* and returns http.ErrServerClosed, which the goroutine does not report
\* (callback.go:66-72), and the deferred shutdownWg.Done() runs.
ServeBegin ==
  /\ Running
  /\ UNCHANGED << clientVars, pureVars >>
  /\ servePc = "start"
  /\ IF inShutdown
       THEN /\ listener' = "closed"
            /\ servePc' = "done"
            /\ shutdownWg' = shutdownWg - 1
       ELSE /\ servePc' = "serving"
            /\ UNCHANGED << listener, shutdownWg >>
  /\ UNCHANGED << portBusy, server, inShutdown, startPc, acceptErr, crashed >>
  /\ UNCHANGED << onceState, spc, nShutdown >>
  /\ UNCHANGED << chanVars, reqVars, waitVars, flowVars >>

\* A variant of ServeClosed that reports the error Serve returns on a
\* shutdown like any other.
ServeClosedPublishing ==
  /\ Running
  /\ UNCHANGED << clientVars, pureVars >>
  /\ servePc = "serving"
  /\ inShutdown
  /\ Len(errChan) < ChanCap
  /\ errChan' = Append(errChan, TransportError)
  /\ nPublished' = nPublished + 1
  /\ servePc' = "done"
  /\ shutdownWg' = shutdownWg - 1
  /\ UNCHANGED << portBusy, server, listener, inShutdown, startPc, acceptErr,
                  crashed >>
  /\ UNCHANGED << onceState, spc, nShutdown >>
  /\ UNCHANGED << codeChan, reqVars, waitVars, flowVars >>

\* The accept loop notices the shutdown: Serve returns http.ErrServerClosed,
\* nothing is sent on errChan, shutdownWg.Done() runs (callback.go:66-72).
ServeClosed ==
  /\ Running
  /\ UNCHANGED << clientVars, pureVars >>
  /\ servePc = "serving"
  /\ inShutdown
  /\ servePc' = "done"
  /\ shutdownWg' = shutdownWg - 1
  /\ UNCHANGED << portBusy, server, listener, inShutdown, startPc, acceptErr,
                  crashed >>
  /\ UNCHANGED << onceState, spc, nShutdown >>
  /\ UNCHANGED << chanVars, reqVars, waitVars, flowVars >>

\* Environment: Accept fails with an error that is not a shutdown. Serve
\* closes the listener and returns the error; the goroutine goes on to
\* report it (callback.go:70-71).
ListenerFails ==
  /\ Running
  /\ UNCHANGED << clientVars, pureVars >>
  /\ servePc = "serving"
  /\ ~inShutdown
  /\ listener' = "closed"
  /\ acceptErr' = TRUE
  /\ servePc' = "sendErr"
  /\ UNCHANGED << portBusy, server, inShutdown, startPc, crashed >>
  /\ UNCHANGED << chanVars, reqVars, waitVars, stopVars, flowVars >>

\* s.errChan <- fmt.Errorf("callback server error: %w", err), a blocking
\* send, then the deferred shutdownWg.Done() (callback.go:66-72).
ServeSendErr ==
  /\ Running
  /\ UNCHANGED << clientVars, pureVars >>
  /\ servePc = "sendErr"
  /\ Len(errChan) < ChanCap
  /\ errChan' = Append(errChan, TransportError)
  /\ nPublished' = nPublished + 1
  /\ servePc' = "done"
  /\ shutdownWg' = shutdownWg - 1
  /\ UNCHANGED << portBusy, server, listener, inShutdown, startPc, acceptErr,
                  crashed >>
  /\ UNCHANGED << codeChan, onceState, spc, nShutdown >>
  /\ UNCHANGED << reqVars, waitVars, flowVars >>

\* ------------------------------------------------------- handleCallback
\* A variant of HandlerOutcome that does not look at the `error` parameter.
HandlerOutcomeIgnoringError(q, r) ==
  IF q.code = "" THEN NoCodeError(r) ELSE CodeOutcome(q.code, r)

\* What handleCallback decides from the query before it sends anything
\* (callback.go:120-135): the no-code error when `code` is empty, else the
\* oauth error when `error` is present, else the code.
HandlerOutcome(q, r) ==
  IF q.code = ""
    THEN NoCodeError(r)
    ELSE IF q.error # ""
           THEN OAuthError(q.error, q.desc, r)
           ELSE CodeOutcome(q.code, r)

\* The server accepts the next inbound request to the callback path and
\* runs handleCallback for it on a goroutine of its own, up to its send
\* (callback.go:116-135, 137-146): on the two error paths the handler has
\* written its 400 response when it reaches the send, on the code path it
\* has written nothing yet. Requests are numbered in the order the server
\* receives them.
Arrive(q) ==
  /\ Running
  /\ UNCHANGED << clientVars, pureVars >>
  /\ servePc = "serving"
  /\ listener = "open"
  /\ arrived < MaxRequests
  /\ LET r == arrived + 1
         out == HandlerOutcome(q, r)
     IN  /\ arrived' = r
         /\ req' = [req EXCEPT ![r] = q]
         /\ pend' = [pend EXCEPT ![r] = out]
         /\ IF out.kind = "code"
              THEN /\ hpc' = [hpc EXCEPT ![r] = "sendCode"]
                   /\ UNCHANGED resp
              ELSE /\ hpc' = [hpc EXCEPT ![r] = "sendErr"]
                   /\ resp' = [resp EXCEPT ![r] = StatusBadRequest]
  /\ UNCHANGED << portBusy, srvVars, crashed >>
  /\ UNCHANGED << chanVars, waitVars, stopVars, flowVars >>

\* s.errChan <- fmt.Errorf(...); return (callback.go:124-125, 133-134).
\* The send blocks while errChan is full.
HandlerSendErr(r) ==
  /\ Running
  /\ UNCHANGED << clientVars, pureVars >>
  /\ hpc[r] = "sendErr"
  /\ Len(errChan) < ChanCap
  /\ errChan' = Append(errChan, pend[r])
  /\ nPublished' = nPublished + 1
  /\ hpc' = [hpc EXCEPT ![r] = "done"]
  /\ UNCHANGED << codeChan, req, pend, resp, arrived >>
  /\ UNCHANGED << portBusy, srvVars, crashed >>
  /\ UNCHANGED << waitVars, stopVars, flowVars >>

\* s.codeChan <- code (callback.go:148). The send blocks while codeChan is
\* full.
HandlerSendCode(r) ==
  /\ Running
  /\ UNCHANGED << clientVars, pureVars >>
  /\ hpc[r] = "sendCode"
  /\ Len(codeChan) < ChanCap
  /\ codeChan' = Append(codeChan, pend[r])
  /\ nPublished' = nPublished + 1
  /\ hpc' = [hpc EXCEPT ![r] = "respond"]
  /\ UNCHANGED << errChan, req, pend, resp, arrived >>
  /\ UNCHANGED << portBusy, srvVars, crashed >>
  /\ UNCHANGED << waitVars, stopVars, flowVars >>

\* w.WriteHeader(http.StatusOK) and the confirmation page
\* (callback.go:151-195).
HandlerRespond(r) ==
  /\ Running
  /\ UNCHANGED << clientVars, pureVars >>
  /\ hpc[r] = "respond"
  /\ resp' = [resp EXCEPT ![r] = StatusOK]
  /\ hpc' = [hpc EXCEPT ![r] = "done"]
  /\ UNCHANGED << req, pend, arrived >>
  /\ UNCHANGED << portBusy, srvVars, crashed >>
  /\ UNCHANGED << chanVars, waitVars, stopVars, flowVars >>

\* ------------------------------------------------------------ WaitForCode
\* The controller calls WaitForCode(ctx) (callback.go:79).
WaitForCodeCall ==
  /\ Running
  /\ UNCHANGED << clientVars, pureVars >>
  /\ wpc = "idle"
  /\ wpc' = "waiting"
  /\ UNCHANGED << ctxDone, wres >>
  /\ UNCHANGED << portBusy, srvVars, crashed >>
  /\ UNCHANGED << chanVars, reqVars, stopVars, flowVars >>

\* case code := <-s.codeChan: return code, nil (callback.go:81-82). When
\* several cases of the select are ready Go picks one of them at random:
\* each case is an action of its own.
WaitRecvCode ==
  /\ Running
  /\ UNCHANGED << clientVars, pureVars >>
  /\ wpc = "waiting"
  /\ Len(codeChan) > 0
  /\ wres' = Head(codeChan)
  /\ codeChan' = Tail(codeChan)
  /\ wpc' = "returned"
  /\ UNCHANGED << errChan, nPublished, ctxDone >>
  /\ UNCHANGED << portBusy, srvVars, crashed >>
  /\ UNCHANGED << reqVars, stopVars, flowVars >>

\* case err := <-s.errChan: return "", err (callback.go:83-84).
WaitRecvErr ==
  /\ Running
  /\ UNCHANGED << clientVars, pureVars >>
  /\ wpc = "waiting"
  /\ Len(errChan) > 0
  /\ wres' = Head(errChan)
  /\ errChan' = Tail(errChan)
  /\ wpc' = "returned"
  /\ UNCHANGED << codeChan, nPublished, ctxDone >>
  /\ UNCHANGED << portBusy, srvVars, crashed >>
  /\ UNCHANGED << reqVars, stopVars, flowVars >>

\* A variant of WaitCtxDone that gives up without an error: ("", nil).
WaitCtxDoneNoError ==
  /\ Running
  /\ UNCHANGED << clientVars, pureVars >>
  /\ wpc = "waiting"
  /\ ~ctxDone
  /\ ctxDone' = TRUE
  /\ wres' = CodeOutcome("", 0)
  /\ wpc' = "returned"
  /\ UNCHANGED << portBusy, srvVars, crashed >>
  /\ UNCHANGED << chanVars, reqVars, stopVars, flowVars >>

\* The deadline of ctx elapses while WaitForCode waits, and the select takes
\* case <-ctx.Done(): return "", ctx.Err() (callback.go:85-86). The other
\* cases may be ready as well: Go picks one of the ready cases at random.
WaitCtxDone ==
  /\ Running
  /\ UNCHANGED << clientVars, pureVars >>
  /\ wpc = "waiting"
  /\ ~ctxDone
  /\ ctxDone' = TRUE
  /\ wres' = TimeoutError
  /\ wpc' = "returned"
  /\ UNCHANGED << portBusy, srvVars, crashed >>
  /\ UNCHANGED << chanVars, reqVars, stopVars, flowVars >>

\* ------------------------------------------------------------------- Stop
\* A goroutine calls Stop() and reaches s.once.Do (callback.go:91-92). The
\* callers are numbered in the order of their calls.
StopCall(t) ==
  /\ Running
  /\ UNCHANGED << clientVars, pureVars >>
  /\ spc[t] = "idle"
  /\ \A u \in Stoppers : u < t => spc[u] # "idle"
  /\ spc' = [spc EXCEPT ![t] = "once"]
  /\ UNCHANGED << onceState, shutdownWg, nShutdown >>
  /\ UNCHANGED << portBusy, srvVars, crashed >>
  /\ UNCHANGED << chanVars, reqVars, waitVars, flowVars >>

\* s.once.Do(f) for the first caller: it runs f (callback.go:92).
StopOnceFirst(t) ==
  /\ Running
  /\ UNCHANGED << clientVars, pureVars >>
  /\ spc[t] = "once"
  /\ onceState = "new"
  /\ onceState' = "running"
  /\ spc' = [spc EXCEPT ![t] = "shutdown"]
  /\ UNCHANGED << shutdownWg, nShutdown >>
  /\ UNCHANGED << portBusy, srvVars, crashed >>
  /\ UNCHANGED << chanVars, reqVars, waitVars, flowVars >>

\* s.once.Do(f) for every other caller: it returns without running f, and
\* only once the first call of f has returned (sync.Once blocks it until
\* then).
StopOnceLater(t) ==
  /\ Running
  /\ UNCHANGED << clientVars, pureVars >>
  /\ spc[t] = "once"
  /\ onceState = "done"
  /\ spc' = [spc EXCEPT ![t] = "returned"]
  /\ UNCHANGED << onceState, shutdownWg, nShutdown >>
  /\ UNCHANGED << portBusy, srvVars, crashed >>
  /\ UNCHANGED << chanVars, reqVars, waitVars, flowVars >>

\* The values a read of s.server by Stop can yield. Start writes the field
\* and Stop reads it with no synchronisation between them: while Start is
\* in flight the read races with the write of callback.go:43 and may still
\* yield nil after it.
ServerReadValues ==
  IF server = "nil"
    THEN {"nil"}
    ELSE IF startPc \in {"assigned", "bound"} THEN {"nil", "srv"} ELSE {"srv"}

\* s.server.Shutdown(ctx) is entered (callback.go:100). On a nil s.server
\* the call dereferences nil and panics; nothing recovers the panic.
\* Otherwise Shutdown marks the server as shutting down and closes the
\* listeners Serve has registered.
StopShutdown(t) ==
  /\ Running
  /\ UNCHANGED << clientVars, pureVars >>
  /\ spc[t] = "shutdown"
  /\ \E seen \in ServerReadValues :
       IF seen = "nil"
         THEN /\ crashed' = TRUE
              /\ spc' = [spc EXCEPT ![t] = "panicked"]
              /\ UNCHANGED << inShutdown, listener, nShutdown >>
         ELSE /\ inShutdown' = TRUE
              /\ nShutdown' = nShutdown + 1
              /\ listener' = IF servePc = "serving" /\ listener = "open"
                               THEN "closed"
                               ELSE listener
              /\ spc' = [spc EXCEPT ![t] = "grace"]
              /\ UNCHANGED crashed
  /\ UNCHANGED << portBusy, server, startPc, servePc, acceptErr >>
  /\ UNCHANGED << onceState, shutdownWg >>
  /\ UNCHANGED << chanVars, reqVars, waitVars, flowVars >>

\* A handler goroutine that has not returned keeps its connection active.
ActiveHandlers == { r \in Requests : hpc[r] \notin {"idle", "done"} }

\* Shutdown returns nil once no connection is active (callback.go:100).
StopShutdownReturns(t) ==
  /\ Running
  /\ UNCHANGED << clientVars, pureVars >>
  /\ spc[t] = "grace"
  /\ ActiveHandlers = {}
  /\ spc' = [spc EXCEPT ![t] = "wait"]
  /\ UNCHANGED << onceState, shutdownWg, nShutdown >>
  /\ UNCHANGED << portBusy, srvVars, crashed >>
  /\ UNCHANGED << chanVars, reqVars, waitVars, flowVars >>

\* The 5 s of the shutdown context elapse while a handler is still active:
\* Shutdown returns the context's error, which Stop logs (callback.go:96-102).
StopGraceExpires(t) ==
  /\ Running
  /\ UNCHANGED << clientVars, pureVars >>
  /\ spc[t] = "grace"
  /\ ActiveHandlers # {}
  /\ spc' = [spc EXCEPT ![t] = "wait"]
  /\ UNCHANGED << onceState, shutdownWg, nShutdown >>
  /\ UNCHANGED << portBusy, srvVars, crashed >>
  /\ UNCHANGED << chanVars, reqVars, waitVars, flowVars >>

\* s.shutdownWg.Wait() returns once the counter is zero; f returns, the
\* Once is done and Stop returns (callback.go:105-108).
StopWait(t) ==
  /\ Running
  /\ UNCHANGED << clientVars, pureVars >>
  /\ spc[t] = "wait"
  /\ shutdownWg = 0
  /\ onceState' = "done"
  /\ spc' = [spc EXCEPT ![t] = "returned"]
  /\ UNCHANGED << shutdownWg, nShutdown >>
  /\ UNCHANGED << portBusy, srvVars, crashed >>
  /\ UNCHANGED << chanVars, reqVars, waitVars, flowVars >>

\* ------------------------------------------------------ the token exchange
\* A variant of VerifyStateOf that compares the two values and nothing else.
VerifyStateEqualOnly(c, state) == state = c.state

\* OAuth2Client.VerifyState on the client c (logger.go:387-392).
VerifyStateOf(c, state) ==
  IF state = "" \/ c.state = "" THEN FALSE ELSE state = c.state

\* VerifyState, against the state issued for the attempt (c.state).
VerifyState(state) == VerifyStateOf([state |-> IssuedState], state)

\* A variant of ExchangeCodeForToken that sends whatever code it is given.
ExchangeNoEmptyCheck(code) == "TokenRequest"

\* The first decision of ExchangeCodeForToken (logger.go:308-320): an empty
\* code fails with "authorization code is empty" before any request is
\* built; any other code goes into a token request. The function takes the
\* code alone: no state value reaches it.
ExchangeCodeForToken(code) ==
  IF code = "" THEN "EmptyCode" ELSE "TokenRequest"

\* The controller hands the code WaitForCode returned to
\* ExchangeCodeForToken. WaitForCode returns the code and an error, nothing
\* else: the `state` parameter of the redirect is not read by handleCallback
\* and is not part of what the controller receives.
ControllerExchange ==
  /\ Running
  /\ UNCHANGED << clientVars, pureVars >>
  /\ xpc = "idle"
  /\ wpc = "returned"
  /\ wres.kind = "code"
  /\ xpc' = "done"
  /\ xres' = ExchangeCodeForToken(wres.code)
  /\ tokenReqs' = IF ExchangeCodeForToken(wres.code) = "TokenRequest"
                    THEN Append(tokenReqs,
                                [code |-> wres.code, from |-> wres.from])
                    ELSE tokenReqs
  /\ UNCHANGED << portBusy, srvVars, crashed >>
  /\ UNCHANGED << chanVars, reqVars, waitVars, stopVars >>

\* ---------------------------------------------------------- specification
Next ==
  \/ StartCall
  \/ StartAssign
  \/ StartListen
  \/ StartSpawn
  \/ ServeBegin
  \/ ServeClosed
  \/ ListenerFails
  \/ ServeSendErr
  \/ \E q \in QueryValues : Arrive(q)
  \/ \E r \in Requests : HandlerSendErr(r)
  \/ \E r \in Requests : HandlerSendCode(r)
  \/ \E r \in Requests : HandlerRespond(r)
  \/ WaitForCodeCall
  \/ WaitRecvCode
  \/ WaitRecvErr
  \/ WaitCtxDone
  \/ \E t \in Stoppers : StopCall(t)
  \/ \E t \in Stoppers : StopOnceFirst(t)
  \/ \E t \in Stoppers : StopOnceLater(t)
  \/ \E t \in Stoppers : StopShutdown(t)
  \/ \E t \in Stoppers : StopShutdownReturns(t)
  \/ \E t \in Stoppers : StopGraceExpires(t)
  \/ \E t \in Stoppers : StopWait(t)
  \/ ControllerExchange

Spec == Init /\ [][Next]_vars

\* The steps of the program's own goroutines. The Go scheduler runs every
\* goroutine that can take a step, and a pending timer fires: each of these
\* steps is taken if it stays enabled. The environment's steps (a call of
\* Start, Stop or WaitForCode, the arrival of a request, a failure of the
\* listener, the deadline of the caller's context) are under no obligation.
ProgramStep ==
  \/ StartAssign
  \/ StartListen
  \/ StartSpawn
  \/ ServeBegin
  \/ ServeClosed
  \/ ServeSendErr
  \/ \E r \in Requests : HandlerSendErr(r)
  \/ \E r \in Requests : HandlerSendCode(r)
  \/ \E r \in Requests : HandlerRespond(r)
  \/ WaitRecvCode
  \/ WaitRecvErr
  \/ \E t \in Stoppers : StopOnceFirst(t)
  \/ \E t \in Stoppers : StopOnceLater(t)
  \/ \E t \in Stoppers : StopShutdown(t)
  \/ \E t \in Stoppers : StopShutdownReturns(t)
  \/ \E t \in Stoppers : StopGraceExpires(t)
  \/ \E t \in Stoppers : StopWait(t)

FairSpec == Spec /\ WF_vars(ProgramStep)

\* The receiver when the provider never redirects: every step but the
\* arrival of a request and what can only follow one (the handlers' steps,
\* the receipt of a code, the exchange of a code).
QuietNext ==
  \/ StartCall
  \/ StartAssign
  \/ StartListen
  \/ StartSpawn
  \/ ServeBegin
  \/ ServeClosed
  \/ ListenerFails
  \/ ServeSendErr
  \/ WaitForCodeCall
  \/ WaitRecvErr
  \/ WaitCtxDone
  \/ \E t \in Stoppers : StopCall(t)
  \/ \E t \in Stoppers : StopOnceFirst(t)
  \/ \E t \in Stoppers : StopOnceLater(t)
  \/ \E t \in Stoppers : StopShutdown(t)
  \/ \E t \in Stoppers : StopShutdownReturns(t)
  \/ \E t \in Stoppers : StopWait(t)

QuietSpec == Init /\ [][QuietNext]_vars /\ WF_vars(ProgramStep)

\* ------------------------------------------------------------------ claims
\* The requests whose handler has completed a send on codeChan or errChan.
PublishedBy == { r \in Requests : hpc[r] \in {"respond", "done"} }

\* C1: for one CallbackServer, at most one outcome is ever published on the
\* handoff by the handlers of the callback path: once one request has
\* published a code or an error, no later request publishes another.
C1_AtMostOneOutcomePublished == Cardinality(PublishedBy) <= 1

\* C2: with more than one inbound request, the outcome WaitForCode returns
\* is the one derived from the first request the server received, however
\* the handlers and the select of WaitForCode interleave.
C2_FirstRequestWins ==
  (wpc = "returned" /\ arrived > 1 /\ wres.from # 0)
    => wres = HandlerOutcome(req[1], 1)

\* C3: every invocation of handleCallback eventually returns, having
\* written an HTTP response, whether or not anyone consumes the outcomes.
C3_HandlerReturns ==
  \A r \in Requests :
    (hpc[r] # "idle") ~> (hpc[r] = "done" /\ resp[r] # 0)

\* C4: a token request is issued for a captured code only if the state
\* value of the redirect that delivered the code equals the state issued for
\* the attempt; a missing or different state never leads to a token request.
C4_ExchangeOnlyWithMatchingState ==
  \A i \in 1..Len(tokenReqs) : VerifyState(req[tokenReqs[i].from].state)

\* C5: when the first inbound request carries an `error` parameter, what
\* WaitForCode returns for that request is the provider error with that
\* error code and description, never a code (and never another error).
C5_ProviderErrorVerbatim ==
  (wpc = "returned" /\ wres.from = 1 /\ req[1].error # "")
    => wres = OAuthError(req[1].error, req[1].desc, 1)

C7_StopIdempotent ==
  /\ [](nShutdown <= 1)
  /\ \A t \in Stoppers :
       (spc[t] # "idle" /\ startPc = "ok") ~> (spc[t] = "returned")

\* C8: Stop() returns normally, without a crash, when the server was never
\* successfully started: Start() never called, or Start() returned the
\* port-unavailable error.
C8_StopSafeWhenNeverStarted ==
  startPc \in {"idle", "failed"} => (\A t \in Stoppers : spc[t] # "panicked")

\* C9: Stop() racing a Start() that is in flight and ends in failure is
\* safe: in no interleaving does a step of Stop act on an unset s.server.
C9_StopSafeDuringFailingStart ==
  (portBusy /\ startPc \in {"entered", "assigned"}) => ~crashed

\* C10: with the port in use Start returns the port-unavailable error, with
\* no serving goroutine started and nothing published on the handoff (so
\* WaitForCode can only time out); with the port free it returns nil with
\* the serving goroutine started; and no step of Start ever blocks.
C10_StartFailsFast ==
  /\ portBusy => startPc \in {"idle", "entered", "assigned", "failed"}
  /\ startPc = "failed" =>
       /\ portBusy
       /\ listener = "unbound"
       /\ servePc = "none"
       /\ shutdownWg = 0
       /\ nPublished = 0
       /\ codeChan = << >> /\ errChan = << >>
       /\ wres \in {NoOutcome, TimeoutError}
  /\ startPc = "ok" => (~portBusy /\ servePc # "none")
  /\ (Running /\ startPc \in {"entered", "assigned", "bound"})
       => ENABLED (StartAssign \/ StartListen \/ StartSpawn)

\* C10 witness: Start has returned the port-unavailable error and a pending
\* WaitForCode has returned, by its deadline.
C10_Witness ==
  /\ startPc = "failed"
  /\ wpc = "returned"

\* C11: on a successful code capture WaitForCode does not return the code
\* to its caller before handleCallback has written the 200 confirmation
\* response for the request that delivered it.
C11_ConfirmationBeforeProceed ==
  (wpc = "returned" /\ wres.kind = "code") => resp[wres.from] = StatusOK

\* -------------------------------------------------------- pure functions
\* Instants of the clock, of `exp` and of `iat`.
Times == 0..MaxTime
\* Audience values: of the token's `aud` claim and of expectedAudience.
AudienceValues == {"", "client1", "client2"}

\* A variant of ValidateIDToken that checks the audience first.
ValidateIDTokenAudienceFirst(claims, expectedAudience, now) ==
  IF expectedAudience # "" /\ claims.aud # expectedAudience
    THEN "AudienceMismatch"
    ELSE IF claims.exp < now
           THEN "Expired"
           ELSE IF claims.iat > now THEN "IssuedInFuture" ELSE "ok"

\* A variant of ValidateIDToken that rejects a token at the very instant
\* of its expiry.
ValidateIDTokenStrictExpiry(claims, expectedAudience, now) ==
  IF claims.exp <= now
    THEN "Expired"
    ELSE IF claims.iat > now
           THEN "IssuedInFuture"
           ELSE IF expectedAudience # "" /\ claims.aud # expectedAudience
                  THEN "AudienceMismatch"
                  ELSE "ok"

\* ValidateIDToken (part_001:204-241); `now` is what time.Now().Unix()
\* yields inside it. The audience list holds the token's audience when it
\* is not empty, and the expected audience is looked up in the list.
ValidateIDToken(claims, expectedAudience, now) ==
  LET audiences == IF claims.aud # "" THEN << claims.aud >> ELSE << >>
      found == \E i \in DOMAIN audiences : audiences[i] = expectedAudience
  IN  IF claims.exp < now
        THEN "Expired"
        ELSE IF claims.iat > now
               THEN "IssuedInFuture"
               ELSE IF expectedAudience # "" /\ ~found
                      THEN "AudienceMismatch"
                      ELSE "ok"

\* strings.ReplaceAll on a string held as a sequence of characters, for a
\* one-character `old`; an empty `new` removes the character.
ReplaceAll(s, old, new) ==
  IF new = ""
    THEN SelectSeq(s, LAMBDA ch : ch # old)
    ELSE [i \in 1..Len(s) |-> IF s[i] = old THEN new ELSE s[i]]

\* The code verifiers GenerateCodeVerifier may return.
Verifiers == {"verifier-1", "verifier-2"}

\* base64.StdEncoding of the SHA-256 digest of a verifier, as characters:
\* distinct verifiers have distinct digests, and the encoding uses the
\* characters +, / and the padding =.
Sha256Base64(v) ==
  IF v = "verifier-1"
    THEN << "4", "+", "k", "/", "Q", "=" >>
    ELSE << "/", "z", "+", "+", "w", "=" >>

\* A variant of CreateCodeChallenge whose hasher is shared between calls:
\* a later call digests what the earlier calls wrote as well.
CreateCodeChallengeSharedHasher(v) ==
  LET fresh == ~("val" \in DOMAIN ret) \/ ret.val = << >>
      written == IF fresh THEN v ELSE v \o v
  IN  ReplaceAll(ReplaceAll(ReplaceAll(Sha256Base64(written), "+", "-"),
                            "/", "_"),
                 "=", "")

\* PKCECodeVerifier.CreateCodeChallenge
CreateCodeChallenge(v) ==
  ReplaceAll(ReplaceAll(ReplaceAll(Sha256Base64(v), "+", "-"), "/", "_"),
             "=", "")

\* The alphabet of base64.StdEncoding, value 0 first.
Base64Alphabet ==
  << "A", "B", "C", "D", "E", "F", "G", "H", "I", "J", "K", "L", "M",
     "N", "O", "P", "Q", "R", "S", "T", "U", "V", "W", "X", "Y", "Z",
     "a", "b", "c", "d", "e", "f", "g", "h", "i", "j", "k", "l", "m",
     "n", "o", "p", "q", "r", "s", "t", "u", "v", "w", "x", "y", "z",
     "0", "1", "2", "3", "4", "5", "6", "7", "8", "9", "+", "/" >>

Base64Value(ch) == (CHOOSE i \in 1..64 : Base64Alphabet[i] = ch) - 1

\* The characters a group of 1, 2 or 3 bytes encodes to, padded to four.
EncodeQuantum(b) ==
  LET v == [i \in 1..3 |-> IF i <= Len(b) THEN b[i] ELSE 0]
      n == (v[1] * 256 + v[2]) * 256 + v[3]
      ch == << Base64Alphabet[(n \div 262144) + 1],
               Base64Alphabet[((n \div 4096) % 64) + 1],
               Base64Alphabet[((n \div 64) % 64) + 1],
               Base64Alphabet[(n % 64) + 1] >>
  IN  SubSeq(ch, 1, Len(b) + 1) \o [i \in 1..(3 - Len(b)) |-> "="]

\* base64.StdEncoding.EncodeToString
RECURSIVE StdEncodeToString(_)
StdEncodeToString(b) ==
  IF Len(b) = 0
    THEN << >>
    ELSE IF Len(b) <= 3
           THEN EncodeQuantum(b)
           ELSE EncodeQuantum(SubSeq(b, 1, 3))
                  \o StdEncodeToString(SubSeq(b, 4, Len(b)))

\* Number of random bytes GenerateCodeVerifier reads.
NumRandomBytes == 32
\* The random inputs: the 32-byte strings that repeat three bytes, the
\* bytes being such that every of A, +, / and the other characters occurs.
ByteValues == {0, 190, 239, 251, 255}
RandomInputs ==
  { [i \in 1..NumRandomBytes |-> pat[((i - 1) % 3) + 1]] :
      pat \in [1..3 -> ByteValues] }

\* A variant of GenerateCodeVerifier that keeps the padding.
GenerateCodeVerifierPadded(b) ==
  ReplaceAll(ReplaceAll(StdEncodeToString(b), "+", "-"), "/", "_")

\* GenerateCodeVerifier (part_000:20-38), b being what rand.Read filled.
GenerateCodeVerifier(b) ==
  ReplaceAll(ReplaceAll(ReplaceAll(StdEncodeToString(b), "+", "-"),
                        "/", "_"),
             "=", "")

\* A variant of VerifyCodeChallenge that compares lengths.
VerifyCodeChallengeLength(verifier, challenge) ==
  Len(CreateCodeChallenge(verifier)) = Len(challenge)

\* VerifyCodeChallenge (part_000:70-72)
VerifyCodeChallenge(verifier, challenge) ==
  CreateCodeChallenge(verifier) = challenge

\* The bytes a group of 2, 3 or 4 base64 characters decodes to (1, 2 or 3
\* bytes; the bits left over are dropped).
DecodeQuantum(q) ==
  LET v == [i \in 1..4 |-> IF i <= Len(q) THEN Base64Value(q[i]) ELSE 0]
      n == ((v[1] * 64 + v[2]) * 64 + v[3]) * 64 + v[4]
      bytes == << n \div 65536, (n \div 256) % 256, n % 256 >>
  IN  SubSeq(bytes, 1, Len(q) - 1)

RECURSIVE DecodeChars(_)
DecodeChars(d) ==
  IF Len(d) = 0
    THEN << >>
    ELSE IF Len(d) <= 4
           THEN DecodeQuantum(d)
           ELSE DecodeQuantum(SubSeq(d, 1, 4))
                  \o DecodeChars(SubSeq(d, 5, Len(d)))

\* base64.StdEncoding.DecodeString of a padded string: the padding is
\* taken off the end, a character outside the alphabet is an error.
StdDecodeString(s) ==
  LET d == SelectSeq(s, LAMBDA ch : ch # "=")
  IN  IF \E i \in DOMAIN d : \A j \in 1..64 : Base64Alphabet[j] # d[i]
        THEN [err |-> TRUE, bytes |-> << >>]
        ELSE [err |-> FALSE, bytes |-> DecodeChars(d)]

\* base64URLDecode (part_001:311-330)
base64URLDecode(s) ==
  IF Len(s) % 4 = 1
    THEN [err |-> TRUE, bytes |-> << >>]
    ELSE LET padded == IF Len(s) % 4 = 2
                         THEN s \o << "=", "=" >>
                         ELSE IF Len(s) % 4 = 3 THEN s \o << "=" >> ELSE s
         IN  StdDecodeString(
               ReplaceAll(ReplaceAll(padded, "-", "+"), "_", "/"))

\* strings.Split(s, sep) for a one-character separator.
RECURSIVE Split(_, _)
Split(s, sep) ==
  IF \A i \in DOMAIN s : s[i] # sep
    THEN << s >>
    ELSE LET i == CHOOSE k \in DOMAIN s :
                    s[k] = sep /\ \A j \in 1..(k - 1) : s[j] # sep
         IN  << SubSeq(s, 1, i - 1) >> \o Split(SubSeq(s, i + 1, Len(s)), sep)

\* json.Unmarshal(payload, &claims). "{}" (bytes 123, 125) is the one JSON
\* document among the byte strings that tokens over TokenChars decode to;
\* it leaves every claim at its zero value.
UnmarshalClaims(payload) ==
  IF payload = << 123, 125 >>
    THEN [err |-> FALSE,
          claims |-> [iss |-> "", sub |-> "", aud |-> "", exp |-> 0,
                      iat |-> 0]]
    ELSE [err |-> TRUE]

\* A variant of ParseIDToken that ignores segments after the third.
ParseIDTokenLenient(idToken) ==
  LET parts == Split(idToken, ".")
  IN  IF Len(parts) < 3
        THEN [err |-> "MalformedToken", claims |-> << >>]
        ELSE LET d == base64URLDecode(parts[2])
                 j == UnmarshalClaims(d.bytes)
             IN  IF d.err \/ j.err
                   THEN [err |-> "DecodeFailure", claims |-> << >>]
                   ELSE [err |-> "nil",
                         claims |-> << [iss |-> j.claims.iss,
                                        sub |-> j.claims.sub,
                                        aud |-> j.claims.aud,
                                        exp |-> j.claims.exp,
                                        iat |-> j.claims.iat,
                                        rawHeader |-> parts[1],
                                        rawPayload |-> parts[2],
                                        rawSignature |-> parts[3]] >>]

\* A variant of ParseIDToken that rejects a token without a signature.
ParseIDTokenSigned(idToken) ==
  LET parts == Split(idToken, ".")
  IN  IF Len(parts) # 3
        THEN [err |-> "MalformedToken", claims |-> << >>]
        ELSE IF Len(parts[3]) = 0
               THEN [err |-> "BadSignature", claims |-> << >>]
               ELSE LET d == base64URLDecode(parts[2])
                        j == UnmarshalClaims(d.bytes)
                    IN  IF d.err \/ j.err
                          THEN [err |-> "DecodeFailure", claims |-> << >>]
                          ELSE [err |-> "nil",
                                claims |-> << [iss |-> j.claims.iss,
                                               sub |-> j.claims.sub,
                                               aud |-> j.claims.aud,
                                               exp |-> j.claims.exp,
                                               iat |-> j.claims.iat,
                                               rawHeader |-> parts[1],
                                               rawPayload |-> parts[2],
                                               rawSignature |-> parts[3]] >>]

\* ParseIDToken (part_001:154-201): the error and the claims returned, the
\* claims as a sequence that is empty for nil.
ParseIDToken(idToken) ==
  LET parts == Split(idToken, ".")
  IN  IF Len(parts) # 3
        THEN [err |-> "MalformedToken", claims |-> << >>]
        ELSE LET d == base64URLDecode(parts[2])
             IN  IF d.err
                   THEN [err |-> "DecodeFailure", claims |-> << >>]
                   ELSE LET j == UnmarshalClaims(d.bytes)
                        IN  IF j.err
                              THEN [err |-> "ClaimsParseFailure",
                                    claims |-> << >>]
                              ELSE [err |-> "nil",
                                    claims |-> << [iss |-> j.claims.iss,
                                                   sub |-> j.claims.sub,
                                                   aud |-> j.claims.aud,
                                                   exp |-> j.claims.exp,
                                                   iat |-> j.claims.iat,
                                                   rawHeader |-> parts[1],
                                                   rawPayload |-> parts[2],
                                                   rawSignature |-> parts[3]] >>]

\* The ID tokens parsed: every string of at most MaxTokenLen characters.
TokenChars == {".", "e", "3", "0"}
Tokens == UNION { [1..n -> TokenChars] : n \in 0..MaxTokenLen }
\* Header and signature segments of the second token of a pair.
OtherSegments == { << >>, << "e" >>, << "3", "0" >> }

\* The calls of the pure functions that are applied.
VerifyStateCalls ==
  { [fn |-> "VerifyState", issued |-> i, received |-> r] :
      i \in StateValues, r \in StateValues }
ValidateIDTokenCalls ==
  { [fn |-> "ValidateIDToken", exp |-> e, iat |-> i, aud |-> a,
     expected |-> x, now |-> n] :
      e \in Times, i \in Times, a \in AudienceValues, x \in AudienceValues,
      n \in Times }
ParseIDTokenCalls == { [fn |-> "ParseIDToken", token |-> t] : t \in Tokens }
\* A three-segment token, and the header and the signature of a second
\* token with the same payload segment.
ParseIDTokenPairCalls ==
  { [fn |-> "ParseIDTokenPair", token |-> t, header |-> h, signature |-> g] :
      t \in { x \in Tokens : Len(Split(x, ".")) = 3 },
      h \in OtherSegments, g \in OtherSegments }
CreateCodeChallengeCalls ==
  { [fn |-> "CreateCodeChallenge", verifier |-> v] : v \in Verifiers }
\* A verifier, and the verifier the challenge is made from.
VerifyCodeChallengeCalls ==
  { [fn |-> "VerifyCodeChallenge", verifier |-> v, from |-> w] :
      v \in Verifiers, w \in Verifiers }
GenerateCodeVerifierCalls ==
  { [fn |-> "GenerateCodeVerifier", random |-> b] : b \in RandomInputs }
PureCalls ==
  VerifyStateCalls \cup ValidateIDTokenCalls \cup ParseIDTokenCalls
    \cup ParseIDTokenPairCalls \cup CreateCodeChallengeCalls
    \cup VerifyCodeChallengeCalls \cup GenerateCodeVerifierCalls

PureInit ==
  /\ NewCallbackServer
  /\ portBusy = FALSE
  /\ IdleClient
  /\ call \in PureCalls
  /\ ret = [done |-> FALSE]

\* c.VerifyState(state) is called on a client whose state is call.issued.
ApplyVerifyState ==
  /\ call.fn = "VerifyState"
  /\ ~ret.done
  /\ ret' = [done |-> TRUE,
             val |-> VerifyStateOf([state |-> call.issued], call.received)]
  /\ UNCHANGED << call, receiverVars, clientVars >>

\* ValidateIDToken(claims, expectedAudience) is called at instant call.now.
ApplyValidateIDToken ==
  /\ call.fn = "ValidateIDToken"
  /\ ~ret.done
  /\ ret' = [done |-> TRUE,
             val |-> ValidateIDToken(
                       [exp |-> call.exp, iat |-> call.iat, aud |-> call.aud],
                       call.expected, call.now)]
  /\ UNCHANGED << call, receiverVars, clientVars >>

\* ParseIDToken(idToken)
ApplyParseIDToken ==
  /\ call.fn = "ParseIDToken"
  /\ ~ret.done
  /\ ret' = [done |-> TRUE, val |-> ParseIDToken(call.token)]
  /\ UNCHANGED << call, receiverVars, clientVars >>

\* ParseIDToken is called on call.token and on the token made of
\* call.header, the payload segment of call.token and call.signature.
ApplyParseIDTokenPair ==
  /\ call.fn = "ParseIDTokenPair"
  /\ ~ret.done
  /\ LET other == call.header \o << "." >> \o Split(call.token, ".")[2]
                     \o << "." >> \o call.signature
     IN  ret' = [done |-> TRUE, other |-> other,
                 val |-> << ParseIDToken(call.token), ParseIDToken(other) >>]
  /\ UNCHANGED << call, receiverVars, clientVars >>

\* verifier.CreateCodeChallenge(), called once and then once more.
ApplyCreateCodeChallenge ==
  /\ call.fn = "CreateCodeChallenge"
  /\ ~ret.done
  /\ LET sofar == IF "val" \in DOMAIN ret THEN ret.val ELSE << >>
     IN  ret' = [done |-> Len(sofar) = 1,
                 val |-> Append(sofar, CreateCodeChallenge(call.verifier))]
  /\ UNCHANGED << call, receiverVars, clientVars >>

\* VerifyCodeChallenge(verifier, from.CreateCodeChallenge())
ApplyVerifyCodeChallenge ==
  /\ call.fn = "VerifyCodeChallenge"
  /\ ~ret.done
  /\ ret' = [done |-> TRUE,
             val |-> VerifyCodeChallenge(call.verifier,
                                         CreateCodeChallenge(call.from))]
  /\ UNCHANGED << call, receiverVars, clientVars >>

\* GenerateCodeVerifier(), rand.Read filling the buffer with call.random.
ApplyGenerateCodeVerifier ==
  /\ call.fn = "GenerateCodeVerifier"
  /\ ~ret.done
  /\ ret' = [done |-> TRUE, val |-> GenerateCodeVerifier(call.random)]
  /\ UNCHANGED << call, receiverVars, clientVars >>

PureNext ==
  \/ ApplyCreateCodeChallenge
  \/ ApplyVerifyCodeChallenge
  \/ ApplyGenerateCodeVerifier
  \/ ApplyVerifyState
  \/ ApplyValidateIDToken
  \/ ApplyParseIDToken
  \/ ApplyParseIDTokenPair

PureSpec == PureInit /\ [][PureNext]_vars

\* C12: VerifyState(received) against the client's issued state is true if
\* and only if both values are non-empty and equal: false when both are
\* empty, false when one is empty, true for x against x, false for x
\* against a different y.
C12_VerifyStateExact ==
  (call.fn = "VerifyState" /\ ret.done) =>
    (ret.val <=> (/\ call.issued # ""
                  /\ call.received # ""
                  /\ call.received = call.issued))

\* C12 witness: VerifyState was applied with both values empty.
C12_Witness ==
  /\ call.fn = "VerifyState"
  /\ ret.done
  /\ call.issued = ""
  /\ call.received = ""

\* C20: ValidateIDToken reports the first failing check in the order
\* expiry, issued-at, audience: expired and issued in the future yields the
\* expired error; issued in the future with a mismatched audience (and not
\* expired) yields the issued-in-future error; the audience error is
\* returned only when the two time checks pass.
C20_ValidationOrder ==
  (call.fn = "ValidateIDToken" /\ ret.done) =>
    /\ (call.exp < call.now /\ call.iat > call.now) => ret.val = "Expired"
    /\ (/\ call.exp >= call.now
        /\ call.iat > call.now
        /\ call.expected # ""
        /\ call.aud # call.expected) => ret.val = "IssuedInFuture"
    /\ ret.val = "AudienceMismatch" =>
         (call.exp >= call.now /\ call.iat <= call.now)

\* C20 witness: a token both expired and issued in the future, with a
\* mismatched audience, was validated.
C20_Witness ==
  /\ call.fn = "ValidateIDToken"
  /\ ret.done
  /\ call.exp < call.now
  /\ call.iat > call.now
  /\ call.expected # ""
  /\ call.aud # call.expected

\* ----------------------------------------------------------- OAuth2Client
GoogleAuthURL == "https://accounts.google.com/o/oauth2/v2/auth"
GoogleTokenURL == "https://oauth2.googleapis.com/token"

\* strings.Join
RECURSIVE Join(_, _)
Join(elems, sep) ==
  IF Len(elems) = 0
    THEN ""
    ELSE IF Len(elems) = 1
           THEN elems[1]
           ELSE elems[1] \o sep \o Join(Tail(elems), sep)

\* The configurations a client is built with.
RedirectURIs ==
  {"http://localhost:8080/callback", "http://127.0.0.1:8080/callback"}
ScopeLists == { << "openid" >>, << "openid", "email" >> }
Configs ==
  { [ClientID |-> "client1", ClientSecret |-> "secret1", RedirectURI |-> r,
     Scopes |-> sc, Audience |-> a] :
      r \in RedirectURIs, sc \in ScopeLists, a \in {"", "client2"} }

\* NewOAuth2Client(config): the verifier and the state are random, the
\* challenge is derived from the verifier.
NewOAuth2Client(config, verifier, state) ==
  [config |-> config, verifier |-> verifier,
   challenge |-> CreateCodeChallenge(verifier), state |-> state]

Clients ==
  { NewOAuth2Client(cfg, v, st) :
      cfg \in Configs, v \in Verifiers, st \in StateValues \ {""} }

\* A variant of AuthQuery that always sets the audience parameter.
AuthQueryAlwaysAudience(c) ==
  [client_id |-> c.config.ClientID,
   redirect_uri |-> c.config.RedirectURI,
   response_type |-> "code",
   scope |-> Join(c.config.Scopes, " "),
   state |-> c.state,
   code_challenge |-> c.challenge,
   code_challenge_method |-> "S256",
   audience |-> c.config.Audience]

\* The query GetAuthorizationURL builds.
AuthQuery(c) ==
  LET q == [client_id |-> c.config.ClientID,
            redirect_uri |-> c.config.RedirectURI,
            response_type |-> "code",
            scope |-> Join(c.config.Scopes, " "),
            state |-> c.state,
            code_challenge |-> c.challenge,
            code_challenge_method |-> "S256"]
  IN  IF c.config.Audience # ""
        THEN q @@ [audience |-> c.config.Audience]
        ELSE q

\* A variant of TokenForm that sends the redirect URI of the running
\* receiver instead of the configured one.
TokenFormListenerRedirect(c, code) ==
  [client_id |-> c.config.ClientID,
   client_secret |-> c.config.ClientSecret,
   code |-> code,
   code_verifier |-> c.verifier,
   grant_type |-> "authorization_code",
   redirect_uri |-> "http://localhost:8080/callback"]

\* The form ExchangeCodeForToken posts.
TokenForm(c, code) ==
  [client_id |-> c.config.ClientID,
   client_secret |-> c.config.ClientSecret,
   code |-> code,
   code_verifier |-> c.verifier,
   grant_type |-> "authorization_code",
   redirect_uri |-> c.config.RedirectURI]

\* What c.httpClient.Do and the reading of the body can come to: no
\* response at all, or a response with a status and a body that is read
\* or fails to be read.
Statuses == {StatusOK, 201, StatusBadRequest, 500}
Bodies == {"token-json", "not-json"}
HTTPOutcomes ==
  { [kind |-> "transport"] } \cup
  { [kind |-> "response", status |-> st, readOK |-> ok, body |-> b] :
      st \in Statuses, ok \in BOOLEAN, b \in Bodies }

\* json.Unmarshal of the body into a TokenResponse succeeds.
Parses(body) == body = "token-json"

\* A variant of HTTPAttempts that sends the request again after a
\* transport failure.
HTTPAttemptsRetrying(h) == IF h.kind = "transport" THEN 2 ELSE 1

\* The number of times ExchangeCodeForToken calls c.httpClient.Do.
HTTPAttempts(h) == 1

\* What ExchangeCodeForToken returns once the request was sent.
TokenResult(h) ==
  IF h.kind = "transport"
    THEN [err |-> "TransportFailure", token |-> FALSE]
    ELSE IF ~h.readOK
           THEN [err |-> "ReadFailure", token |-> FALSE]
           ELSE IF h.status # StatusOK
                  THEN [err |-> "ProviderRejected", token |-> FALSE,
                        status |-> h.status, body |-> h.body]
                  ELSE IF ~Parses(h.body)
                         THEN [err |-> "MalformedResponse", token |-> FALSE]
                         ELSE [err |-> "nil", token |-> TRUE]

ClientInit ==
  /\ NewCallbackServer
  /\ portBusy = FALSE
  /\ client \in Clients
  /\ authURLs = {}
  /\ tokenPosts = {}
  /\ netCalls = 0
  /\ nCalls = 0
  /\ last = [op |-> "none"]
  /\ IdlePure

GetAuthorizationURL ==
  /\ nCalls < MaxCalls
  /\ nCalls' = nCalls + 1
  /\ LET u == [base |-> GoogleAuthURL, query |-> AuthQuery(client)]
     IN  /\ authURLs' = authURLs \cup {u}
         /\ last' = [op |-> "GetAuthorizationURL", url |-> u]
  /\ UNCHANGED << client, tokenPosts, netCalls, receiverVars, pureVars >>

\* ExchangeCodeForToken(ctx, code), the token endpoint behaving as h.
ClientExchange(code, h) ==
  /\ nCalls < MaxCalls
  /\ nCalls' = nCalls + 1
  /\ IF ExchangeCodeForToken(code) = "EmptyCode"
       THEN /\ last' = [op |-> "ExchangeCodeForToken", code |-> code,
                        http |-> h,
                        result |-> [err |-> "EmptyCode", token |-> FALSE]]
            /\ UNCHANGED << tokenPosts, netCalls >>
       ELSE /\ tokenPosts' = tokenPosts \cup
                 {[url |-> GoogleTokenURL, form |-> TokenForm(client, code)]}
            /\ netCalls' = netCalls + HTTPAttempts(h)
            /\ last' = [op |-> "ExchangeCodeForToken", code |-> code,
                        http |-> h, result |-> TokenResult(h)]
  /\ UNCHANGED << client, authURLs, receiverVars, pureVars >>

\* c.VerifyState(state)
ClientVerifyState(state) ==
  /\ nCalls < MaxCalls
  /\ nCalls' = nCalls + 1
  /\ last' = [op |-> "VerifyState", state |-> state,
              result |-> VerifyStateOf(client, state)]
  /\ UNCHANGED << client, authURLs, tokenPosts, netCalls, receiverVars,
                  pureVars >>

\* A variant of GetCodeVerifier that hands the verifier out once and then
\* replaces it.
GetCodeVerifierSingleUse ==
  /\ nCalls < MaxCalls
  /\ nCalls' = nCalls + 1
  /\ last' = [op |-> "GetCodeVerifier", result |-> client.verifier]
  /\ client' = [client EXCEPT
                  !.verifier = CHOOSE v \in Verifiers : v # client.verifier]
  /\ UNCHANGED << authURLs, tokenPosts, netCalls, receiverVars, pureVars >>

GetCodeVerifier ==
  /\ nCalls < MaxCalls
  /\ nCalls' = nCalls + 1
  /\ last' = [op |-> "GetCodeVerifier", result |-> client.verifier]
  /\ UNCHANGED << client, authURLs, tokenPosts, netCalls, receiverVars,
                  pureVars >>

GetCodeChallenge ==
  /\ nCalls < MaxCalls
  /\ nCalls' = nCalls + 1
  /\ last' = [op |-> "GetCodeChallenge", result |-> client.challenge]
  /\ UNCHANGED << client, authURLs, tokenPosts, netCalls, receiverVars,
                  pureVars >>

ClientNext ==
  \/ GetAuthorizationURL
  \/ \E code \in CodeValues, h \in HTTPOutcomes : ClientExchange(code, h)
  \/ \E state \in StateValues : ClientVerifyState(state)
  \/ GetCodeVerifier
  \/ GetCodeChallenge

ClientSpec == ClientInit /\ [][ClientNext]_vars

\* C13: ExchangeCodeForToken called with an empty code fails at once with
\* the empty-code error, returns no token response and makes no network
\* call.
C13_EmptyCodeFailsWithoutNetwork ==
  [][(/\ nCalls' # nCalls
      /\ last'.op = "ExchangeCodeForToken"
      /\ last'.code = "")
       => /\ last'.result.err = "EmptyCode"
          /\ ~last'.result.token
          /\ netCalls' = netCalls
          /\ tokenPosts' = tokenPosts]_vars

\* C13 witness: ExchangeCodeForToken has returned from a call with an
\* empty code.
C13_Witness ==
  /\ last.op = "ExchangeCodeForToken"
  /\ last.code = ""

\* C14: each invocation of ExchangeCodeForToken with a non-empty code
\* issues exactly one HTTP request to the token endpoint, whatever the
\* result (transport failure, non-success status, unparseable body or
\* success).
C14_ExactlyOneRequest ==
  [][(/\ nCalls' # nCalls
      /\ last'.op = "ExchangeCodeForToken"
      /\ last'.code # "")
       => netCalls' = netCalls + 1]_vars

\* C14 witness: two exchanges with a non-empty code were made and the
\* later one met a transport failure.
C14_Witness ==
  /\ last.op = "ExchangeCodeForToken"
  /\ last.code # ""
  /\ last.http.kind = "transport"
  /\ netCalls = 2

\* C15: ExchangeCodeForToken returns the provider-rejected error exactly
\* when the token endpoint answers with a non-2xx status (the body of the
\* answer having been read), and then carries the status and the raw body
\* and returns no token response; a transport failure is another error.
C15_RejectedExactlyWhenNon2xx ==
  (/\ last.op = "ExchangeCodeForToken"
   /\ last.code # ""
   /\ last.http.kind = "response" => last.http.readOK)
    => /\ last.result.err = "ProviderRejected"
            <=> (/\ last.http.kind = "response"
                 /\ last.http.status \notin 200..299)
       /\ last.result.err = "ProviderRejected"
            => /\ last.result.status = last.http.status
               /\ last.result.body = last.http.body
               /\ ~last.result.token
       /\ last.http.kind = "transport"
            => last.result.err = "TransportFailure"

\* C16: for every 2xx status of the token endpoint, a body that fails to
\* parse makes ExchangeCodeForToken return the malformed-response error
\* and a body that parses makes it return the token response.
C16_Every2xxIsParsed ==
  (/\ last.op = "ExchangeCodeForToken"
   /\ last.code # ""
   /\ last.http.kind = "response"
   /\ last.http.readOK
   /\ last.http.status \in 200..299)
    => IF Parses(last.http.body)
         THEN last.result.token /\ last.result.err = "nil"
         ELSE last.result.err = "MalformedResponse"

\* C17: the redirect_uri ExchangeCodeForToken sends in the token request
\* is the same string as the redirect_uri GetAuthorizationURL places in
\* the authorization URL, in whatever order and however often the two are
\* called on one client.
C17_SameRedirectURI ==
  \A u \in authURLs, p \in tokenPosts :
    p.form.redirect_uri = u.query.redirect_uri

\* C17 witness: both an authorization URL and a token request were made by
\* a client configured with the 127.0.0.1 redirect URI.
C17_Witness ==
  /\ authURLs # {}
  /\ tokenPosts # {}
  /\ client.config.RedirectURI = "http://127.0.0.1:8080/callback"

\* C18: no operation mutates the client (verifier, challenge, state,
\* configuration), so the code_verifier of every token request derives,
\* by CreateCodeChallenge, to the code_challenge of every authorization
\* URL.
C18_AttemptNeverMutated ==
  /\ [][client' = client]_vars
  /\ [](\A u \in authURLs, p \in tokenPosts :
          CreateCodeChallenge(p.form.code_verifier) = u.query.code_challenge)

\* C18 witness: GetCodeVerifier was called after an authorization URL and
\* a token request were made.
C18_Witness ==
  /\ authURLs # {}
  /\ tokenPosts # {}
  /\ last.op = "GetCodeVerifier"

\* C19: GetAuthorizationURL makes no network call and changes nothing of
\* the client; its result is determined by the client; its query carries
\* client_id, redirect_uri, response_type=code, the space-joined scopes,
\* the state, the code_challenge and code_challenge_method=S256, and an
\* audience parameter if and only if a non-empty audience is configured.
C19_AuthorizationURLPure ==
  /\ [][(nCalls' # nCalls /\ last'.op = "GetAuthorizationURL")
          => /\ netCalls' = netCalls
             /\ tokenPosts' = tokenPosts
             /\ client' = client]_vars
  /\ [](Cardinality(authURLs) <= 1)
  /\ [](last.op = "GetAuthorizationURL" =>
          LET q == last.url.query
              fixed == {"client_id", "redirect_uri", "response_type",
                        "scope", "state", "code_challenge",
                        "code_challenge_method"}
          IN  /\ last.url.base = GoogleAuthURL
              /\ q["client_id"] = client.config.ClientID
              /\ q["redirect_uri"] = client.config.RedirectURI
              /\ q["response_type"] = "code"
              /\ q["scope"] = (IF Len(client.config.Scopes) = 1
                                 THEN "openid" ELSE "openid email")
              /\ q["state"] = client.state
              /\ q["code_challenge"] = client.challenge
              /\ q["code_challenge_method"] = "S256"
              /\ IF client.config.Audience # ""
                   THEN /\ DOMAIN q = fixed \cup {"audience"}
                        /\ q["audience"] = client.config.Audience
                   ELSE DOMAIN q = fixed)

\* C19 witness: GetAuthorizationURL was called after a token request by a
\* client with no audience configured.
C19_Witness ==
  /\ last.op = "GetAuthorizationURL"
  /\ client.config.Audience = ""
  /\ netCalls > 0

\* C21: ValidateIDToken succeeds if and only if exp >= now, iat <= now and
\* the expected audience is empty or equals the token's audience; it
\* returns expired exactly when exp < now (exp = now is accepted),
\* issued-in-future when iat > now (the token not being expired), and
\* audience mismatch when, the two time checks passing, a non-empty
\* expected audience differs from the token's audience, an empty token
\* audience included.
C21_ValidationExact ==
  (call.fn = "ValidateIDToken" /\ ret.done) =>
    LET audienceOK == call.expected = "" \/ call.expected = call.aud
    IN  /\ ret.val = "ok"
             <=> (call.exp >= call.now /\ call.iat <= call.now /\ audienceOK)
        /\ ret.val = "Expired" <=> call.exp < call.now
        /\ ret.val = "IssuedInFuture"
             <=> (call.exp >= call.now /\ call.iat > call.now)
        /\ ret.val = "AudienceMismatch"
             <=> (/\ call.exp >= call.now
                  /\ call.iat <= call.now
                  /\ ~audienceOK)

\* C21 witness: a token with exp = now = iat and an empty audience was
\* validated against a non-empty expected audience.
C21_Witness ==
  /\ call.fn = "ValidateIDToken"
  /\ ret.done
  /\ call.exp = call.now
  /\ call.iat = call.now
  /\ call.aud = ""
  /\ call.expected # ""

\* C22: ParseIDToken accepts only input of exactly three dot-separated
\* segments: with any other number of segments it returns the
\* malformed-token error, and whenever it returns an error it returns no
\* claims.
C22_ThreeSegmentsOnly ==
  (call.fn = "ParseIDToken" /\ ret.done) =>
    LET dots == Cardinality({ i \in DOMAIN call.token : call.token[i] = "." })
    IN  /\ dots # 2 => ret.val.err = "MalformedToken"
        /\ ret.val.err # "nil" => ret.val.claims = << >>
        /\ ret.val.err = "nil" => Len(ret.val.claims) = 1

\* C22 witness: a token of two segments ("e.e") was parsed.
C22_Witness ==
  /\ call.fn = "ParseIDToken"
  /\ ret.done
  /\ call.token = << "e", ".", "e" >>

\* C23: two three-segment tokens with the same payload segment and other
\* header or signature segments yield the same decoded claims or the same
\* failure, and the claims returned retain the three raw segments of
\* their token verbatim.
C23_SignatureNotVerified ==
  (call.fn = "ParseIDTokenPair" /\ ret.done) =>
    LET a == ret.val[1]
        b == ret.val[2]
        decoded(c) == << c.iss, c.sub, c.aud, c.exp, c.iat >>
        raw(c) == c.rawHeader \o << "." >> \o c.rawPayload \o << "." >>
                    \o c.rawSignature
    IN  /\ a.err = b.err
        /\ Len(a.claims) = Len(b.claims)
        /\ a.err = "nil" =>
             /\ decoded(a.claims[1]) = decoded(b.claims[1])
             /\ raw(a.claims[1]) = call.token
             /\ raw(b.claims[1]) = ret.other
             /\ b.claims[1].rawHeader = call.header
             /\ b.claims[1].rawSignature = call.signature

\* C23 witness: a token with a payload that decodes, a header and no
\* signature was parsed next to a token with the same payload, no header
\* and a signature.
C23_Witness ==
  /\ call.fn = "ParseIDTokenPair"
  /\ ret.done
  /\ call.token = << "e", ".", "e", "3", "0", "." >>
  /\ call.header = << >>
  /\ call.signature = << "3", "0" >>
  /\ ret.val[1].err = "nil"

C25_VerifyChallenge ==
  (call.fn = "VerifyCodeChallenge" /\ ret.done) =>
    (ret.val <=> call.verifier = call.from)

\* C25 witness: a challenge made from one verifier was verified against
\* another verifier.
C25_Witness ==
  /\ call.fn = "VerifyCodeChallenge"
  /\ ret.done
  /\ call.verifier # call.from

\* C26: every verifier GenerateCodeVerifier returns has a length within
\* 43..128 and consists of letters, digits, '-' and '_' only (no '+', '/'
\* or '=').
C26_VerifierWellFormed ==
  (call.fn = "GenerateCodeVerifier" /\ ret.done) =>
    /\ Len(ret.val) >= 43
    /\ Len(ret.val) <= 128
    /\ \A i \in DOMAIN ret.val :
         /\ ret.val[i] \notin {"+", "/", "="}
         /\ \/ ret.val[i] \in {"-", "_"}
            \/ \E k \in 1..62 : Base64Alphabet[k] = ret.val[i]

\* C26 witness: a verifier was generated from random bytes whose encoding
\* holds '+' and '/' characters.
C26_Witness ==
  /\ call.fn = "GenerateCodeVerifier"
  /\ ret.done
  /\ call.random[1] = 251
  /\ call.random[2] = 255
  /\ \E i \in DOMAIN ret.val : ret.val[i] = "-"
  /\ \E i \in DOMAIN ret.val : ret.val[i] = "_"

\* C27: the response of the callback route matches the outcome the
\* request publishes: a request is answered 200 exactly when its code was
\* handed over, and a request that fails or has no code is answered 400
\* and hands over an error, never a code.
C27_ResponseMatchesOutcome ==
  /\ [](\A r \in Requests :
          /\ resp[r] = StatusOK =>
               /\ pend[r].kind = "code"
               /\ r \in PublishedBy
          /\ hpc[r] = "done" =>
               (resp[r] = StatusOK <=> pend[r].kind = "code")
          /\ (hpc[r] # "idle" /\ (req[r].code = "" \/ req[r].error # "")) =>
               /\ resp[r] = StatusBadRequest
               /\ pend[r].kind \in {"nocode", "oauth"})
  /\ \A r \in Requests :
       (hpc[r] # "idle" /\ pend[r].kind # "code")
         ~> (resp[r] = StatusBadRequest /\ r \in PublishedBy)
  /\ \A r \in Requests :
       (r \in PublishedBy /\ pend[r].kind = "code") ~> (resp[r] = StatusOK)

\* C28: a shutdown initiated by Stop() is never delivered to WaitForCode
\* as an outcome, and when the listener fails while WaitForCode is
\* pending, WaitForCode eventually returns that transport error.
C28_ListenerFailureReturned ==
  /\ [](wpc = "returned" /\ wres.kind = "transport" => acceptErr)
  /\ (wpc = "waiting" /\ acceptErr)
       ~> (wpc = "returned" /\ wres = TransportError)

\* C28, amended: a shutdown initiated by Stop() is never delivered to
\* WaitForCode as an outcome, and when the listener fails while WaitForCode
\* is pending, WaitForCode eventually returns: with that transport error,
\* unless its deadline elapsed or the outcome of a request was delivered
\* to it first.
C28_ListenerFailureOrEarlierOutcome ==
  /\ [](wpc = "returned" /\ wres.kind = "transport" => acceptErr)
  /\ (wpc = "waiting" /\ acceptErr)
       ~> /\ wpc = "returned"
          /\ \/ wres = TransportError
             \/ wres = TimeoutError
             \/ wres.from # 0

\* C28 witness: the listener failed with no Stop() under way and
\* WaitForCode has returned the transport error.
C28_Witness ==
  /\ acceptErr
  /\ nShutdown = 0
  /\ wpc = "returned"
  /\ wres = TransportError

\* C29: after a successful Start, every call of Stop() eventually returns,
\* and the call that performs the shutdown returns only after the serving
\* goroutine has exited.
C29_StopReturns ==
  /\ [][\A t \in Stoppers :
          (startPc = "ok" /\ spc[t] = "wait" /\ spc'[t] = "returned")
            => servePc = "done"]_vars
  /\ \A t \in Stoppers :
       (startPc = "ok" /\ spc[t] = "once") ~> (spc[t] = "returned")

\* C30: a code WaitForCode returns with a nil error is non-empty and is
\* the `code` parameter of a request that carried no `error` parameter;
\* ExchangeCodeForToken does not fail on it with the empty-code error.
C30_ReturnedCodeUsable ==
  (wpc = "returned" /\ wres.kind = "code") =>
    /\ wres.code # ""
    /\ wres.from \in 1..arrived
    /\ req[wres.from].code = wres.code
    /\ req[wres.from].error = ""
    /\ ExchangeCodeForToken(wres.code) # "EmptyCode"

\* C30 witness: WaitForCode has returned the code of the second request
\* the server received.
C30_Witness ==
  /\ wpc = "returned"
  /\ wres.kind = "code"
  /\ wres.from = 2

====
